---- MODULE Spec2Model ----
(***************************************************************************)
(* A model of the terminal snake game of src/src/main.rs: the Game, Snake  *)
(* and Apple structs and the main game loop, one action per step of the    *)
(* loop.  A cell [x, y] of the source is the tuple <<x, y>> ; a Vec is a   *)
(* function on 0 .. len-1, so that indices read as in the source.          *)
(***************************************************************************)
EXTENDS Integers, FiniteSets, Sequences, TLC

VARIABLES game, snake, apple, pc, event, start, queue

vars == <<game, snake, apple, pc, event, start, queue>>

(***************************************************************************)
(* Grids <<width, height>> that Spec explores with every key and every     *)
(* apple sample.  Game::new takes any height and width; 9 x 5 is the       *)
(* smallest grid on which Snake::spawn puts the three segments strictly    *)
(* inside the border.  The 40 x 15 grid of Game::default is explored by    *)
(* SpecTour.  polling_rate only paces the loop and is left out.            *)
(***************************************************************************)
Grids == {<<9, 5>>}

DefaultHeight == 15
DefaultWidth == 40

\* Ticks are explored while the score is below MaxScore.
MaxScore == 2

\* Most keys typed in one burst.
MaxQueue == 3

\* Largest width and height of the grids explored besides the default one.
MaxGridWidth == 10

MaxGridHeight == 7

(***************************************************************************)
(* Vec helpers.                                                            *)
(***************************************************************************)
VecLen(v) == Cardinality(DOMAIN v)

VecContains(v, e) == \E i \in DOMAIN v : v[i] = e

VecInsert(v, idx, e) ==
    [i \in 0..VecLen(v) |->
        IF i < idx THEN v[i] ELSE IF i = idx THEN e ELSE v[i - 1]]

VecCells(v) == {v[i] : i \in DOMAIN v}

(***************************************************************************)
(* Game                                                                    *)
(***************************************************************************)
\* The cells draw_border pushes onto game.wall (only membership is ever asked).
draw_border_open_right(height, width) ==
    {c \in (0..(width - 1)) \X (0..(height - 1)) :
        (c[2] = 0 \/ c[2] = height - 1) \/ (c[1] = 0 \/ c[1] = width)}

draw_border(height, width) ==
    {c \in (0..(width - 1)) \X (0..(height - 1)) :
        (c[2] = 0 \/ c[2] = height - 1) \/ (c[1] = 0 \/ c[1] = width - 1)}

Game_new(height, width, wall, score) ==
    [height |-> height, width |-> width, wall |-> wall, score |-> score]

\* increase_score that updates nothing.
increase_score_lost(g) == g

increase_score(g) == [g EXCEPT !.score = g.score + 1]

EXIT_SIGNAL == <<69, 69>>

Events == {"none", "w", "d", "s", "a", "Esc", "other"}

\* handle_input whose 's' guard repeats the guard of 'w'.
handle_input_same_guard(s, key) ==
    IF key = "none" THEN s
    ELSE IF key = "w" /\ s.direction[2] # 1 THEN [s EXCEPT !.direction = <<0, -1>>]
    ELSE IF key = "d" /\ s.direction[1] # -1 THEN [s EXCEPT !.direction = <<1, 0>>]
    ELSE IF key = "s" /\ s.direction[2] # 1 THEN [s EXCEPT !.direction = <<0, 1>>]
    ELSE IF key = "a" /\ s.direction[1] # 1 THEN [s EXCEPT !.direction = <<-1, 0>>]
    ELSE IF key = "Esc" THEN [s EXCEPT !.direction = EXIT_SIGNAL]
    ELSE s

\* handle_input whose Esc branch sets only direction[0].
handle_input_half_signal(s, key) ==
    IF key = "none" THEN s
    ELSE IF key = "w" /\ s.direction[2] # 1 THEN [s EXCEPT !.direction = <<0, -1>>]
    ELSE IF key = "d" /\ s.direction[1] # -1 THEN [s EXCEPT !.direction = <<1, 0>>]
    ELSE IF key = "s" /\ s.direction[2] # -1 THEN [s EXCEPT !.direction = <<0, 1>>]
    ELSE IF key = "a" /\ s.direction[1] # 1 THEN [s EXCEPT !.direction = <<-1, 0>>]
    ELSE IF key = "Esc" THEN [s EXCEPT !.direction = <<69, s.direction[2]>>]
    ELSE s

\* handle_input whose 'a' branch has no guard.
handle_input_a_unguarded(s, key) ==
    IF key = "none" THEN s
    ELSE IF key = "w" /\ s.direction[2] # 1 THEN [s EXCEPT !.direction = <<0, -1>>]
    ELSE IF key = "d" /\ s.direction[1] # -1 THEN [s EXCEPT !.direction = <<1, 0>>]
    ELSE IF key = "s" /\ s.direction[2] # -1 THEN [s EXCEPT !.direction = <<0, 1>>]
    ELSE IF key = "a" THEN [s EXCEPT !.direction = <<-1, 0>>]
    ELSE IF key = "Esc" THEN [s EXCEPT !.direction = EXIT_SIGNAL]
    ELSE s

\* handle_input whose 'w' branch does not reset direction[0].
handle_input_w_keeps_x(s, key) ==
    IF key = "none" THEN s
    ELSE IF key = "w" /\ s.direction[2] # 1 THEN [s EXCEPT !.direction[2] = -1]
    ELSE IF key = "d" /\ s.direction[1] # -1 THEN [s EXCEPT !.direction = <<1, 0>>]
    ELSE IF key = "s" /\ s.direction[2] # -1 THEN [s EXCEPT !.direction = <<0, 1>>]
    ELSE IF key = "a" /\ s.direction[1] # 1 THEN [s EXCEPT !.direction = <<-1, 0>>]
    ELSE IF key = "Esc" THEN [s EXCEPT !.direction = EXIT_SIGNAL]
    ELSE s

handle_input(s, key) ==
    IF key = "none" THEN s
    ELSE IF key = "w" /\ s.direction[2] # 1 THEN [s EXCEPT !.direction = <<0, -1>>]
    ELSE IF key = "d" /\ s.direction[1] # -1 THEN [s EXCEPT !.direction = <<1, 0>>]
    ELSE IF key = "s" /\ s.direction[2] # -1 THEN [s EXCEPT !.direction = <<0, 1>>]
    ELSE IF key = "a" /\ s.direction[1] # 1 THEN [s EXCEPT !.direction = <<-1, 0>>]
    ELSE IF key = "Esc" THEN [s EXCEPT !.direction = EXIT_SIGNAL]
    ELSE s

(***************************************************************************)
(* Snake                                                                   *)
(***************************************************************************)
Snake_new(head, body, tail, wake, length, direction) ==
    [head |-> head, body |-> body, tail |-> tail, wake |-> wake,
     length |-> length, direction |-> direction]

Snake_spawn(g) ==
    LET head == <<g.width \div 3, g.height \div 2>>
        tail == <<head[1] - 2, head[2]>>
        wake == <<head[1] - 3, head[2]>>
        body == [i \in 0..2 |->
                    IF i = 0 THEN head
                    ELSE IF i = 1 THEN <<head[1] - 1, head[2]>> ELSE tail]
    IN  Snake_new(head, body, tail, wake, 3, <<1, 0>>)

\* ate that looks one cell ahead of the head.
ate_ahead(s, a) ==
    s.head[1] + s.direction[1] = a.position[1] /\ s.head[2] + s.direction[2] = a.position[2]

ate(s, a) == s.head[1] = a.position[1] /\ s.head[2] = a.position[2]

\* grow that forgets length += 1.
grow_no_length(s) ==
    [s EXCEPT !.body = VecInsert(s.body, s.length - 1, <<s.tail[1], s.tail[2]>>)]

\* grow that inserts one slot too early.
grow_early(s) ==
    [s EXCEPT !.body = VecInsert(s.body, s.length - 2, <<s.tail[1], s.tail[2]>>),
              !.length = s.length + 1]

grow(s) ==
    [s EXCEPT !.body = VecInsert(s.body, s.length - 1, <<s.tail[1], s.tail[2]>>),
              !.length = s.length + 1]

\* The shift loop of slither, from index i down to 1: body[j] = body[j - 1].
\* The index descends, so every body[j - 1] read is still the old value.
slither_loop(body, i) ==
    [j \in DOMAIN body |-> IF 1 <= j /\ j <= i THEN body[j - 1] ELSE body[j]]

\* slither that forgets body[length - 1] = tail.
slither_last_stale(s) ==
    LET wake == <<s.tail[1], s.tail[2]>>
        tail == <<s.body[s.length - 2][1], s.body[s.length - 2][2]>>
        b1 == slither_loop(s.body, s.length - 2)
        b2 == [b1 EXCEPT ![1] = <<s.head[1], s.head[2]>>]
        head == <<s.head[1] + s.direction[1], s.head[2] + s.direction[2]>>
        b4 == [b2 EXCEPT ![0] = head]
    IN  [s EXCEPT !.wake = wake, !.tail = tail, !.head = head, !.body = b4]

\* slither that leaves the cached tail where it was.
slither_tail_kept(s) ==
    LET wake == <<s.tail[1], s.tail[2]>>
        tail == <<s.tail[1], s.tail[2]>>
        b1 == slither_loop(s.body, s.length - 2)
        b2 == [b1 EXCEPT ![1] = <<s.head[1], s.head[2]>>]
        head == <<s.head[1] + s.direction[1], s.head[2] + s.direction[2]>>
        b3 == [b2 EXCEPT ![s.length - 1] = tail]
        b4 == [b3 EXCEPT ![0] = head]
    IN  [s EXCEPT !.wake = wake, !.tail = tail, !.head = head, !.body = b4]

\* slither without the loop that shifts body[1..length-2].
slither_no_shift(s) ==
    LET wake == <<s.tail[1], s.tail[2]>>
        tail == <<s.body[s.length - 2][1], s.body[s.length - 2][2]>>
        b2 == [s.body EXCEPT ![1] = <<s.head[1], s.head[2]>>]
        head == <<s.head[1] + s.direction[1], s.head[2] + s.direction[2]>>
        b3 == [b2 EXCEPT ![s.length - 1] = tail]
        b4 == [b3 EXCEPT ![0] = head]
    IN  [s EXCEPT !.wake = wake, !.tail = tail, !.head = head, !.body = b4]

slither(s) ==
    LET wake == <<s.tail[1], s.tail[2]>>
        tail == <<s.body[s.length - 2][1], s.body[s.length - 2][2]>>
        b1 == slither_loop(s.body, s.length - 2)
        b2 == [b1 EXCEPT ![1] = <<s.head[1], s.head[2]>>]
        head == <<s.head[1] + s.direction[1], s.head[2] + s.direction[2]>>
        b3 == [b2 EXCEPT ![s.length - 1] = tail]
        b4 == [b3 EXCEPT ![0] = head]
    IN  [s EXCEPT !.wake = wake, !.tail = tail, !.head = head, !.body = b4]

\* collided_with_self whose slice stops before the last segment.
collided_with_self_short(s) == \E i \in 1..(s.length - 2) : s.body[i] = s.head

collided_with_self(s) == \E i \in 1..(s.length - 1) : s.body[i] = s.head

\* collided_with_wall that compares with width instead of width - 1.
collided_with_wall_off_by_one(s, g) ==
    IF s.head[1] = g.width THEN TRUE
    ELSE IF s.head[1] = 0 THEN TRUE
    ELSE IF s.head[2] = g.height - 1 THEN TRUE
    ELSE IF s.head[2] = 0 THEN TRUE
    ELSE FALSE

collided_with_wall(s, g) ==
    IF s.head[1] = g.width - 1 THEN TRUE
    ELSE IF s.head[1] = 0 THEN TRUE
    ELSE IF s.head[2] = g.height - 1 THEN TRUE
    ELSE IF s.head[2] = 0 THEN TRUE
    ELSE FALSE

\* Snake::draw converts every coordinate it moves the cursor to with
\* try_into().unwrap() (i16 to u16), which panics on a negative coordinate.
draw_panics(s) ==
    \/ s.head[1] < 0 \/ s.head[2] < 0
    \/ \E i \in 1..(s.length - 2) : s.body[i][1] < 0 \/ s.body[i][2] < 0
    \/ s.tail[1] < 0 \/ s.tail[2] < 0
    \/ s.wake[1] < 0 \/ s.wake[2] < 0

\* Game::display_score computes self.width - msg.len() as u16 in u16: with
\* width < 25 the subtraction panics when overflow checks are compiled in and
\* wraps otherwise.
MsgLen == 25

display_score_overflows(g) == g.width < MsgLen

RenderOutcomes(s, g) ==
    IF draw_panics(s) THEN {"panicked"}
    ELSE IF display_score_overflows(g) THEN {"panicked", "handle_input"}
    ELSE {"handle_input"}

(***************************************************************************)
(* Apple                                                                   *)
(***************************************************************************)
Apple_new(position, exists) == [position |-> position, exists |-> exists]

Apple_default == Apple_new(<<0, 0>>, FALSE)

Samples(g) == (0..(g.width - 1)) \X (0..(g.height - 1))

\* Apple::spawn that does not look at the snake.
Apple_spawn_wall_only(a, s, g, position) ==
    IF ~(position \in g.wall)
    THEN [a EXCEPT !.position = position, !.exists = TRUE]
    ELSE [a EXCEPT !.position = position]

Apple_spawn(a, s, g, position) ==
    IF ~(position \in g.wall) /\ ~VecContains(s.body, position)
    THEN [a EXCEPT !.position = position, !.exists = TRUE]
    ELSE [a EXCEPT !.position = position]

(***************************************************************************)
(* main: the state after construction and the steps of the game loop.      *)
(***************************************************************************)
\* start: the game, snake and apple as they were when the current tick began
\* (from handle_input until the tick's render).  event: the local variable of
\* handle_input, in scope until main has looked at the direction.
NoStart == [taken |-> FALSE]

Snapshot == [taken |-> TRUE, game |-> game, snake |-> snake, apple |-> apple]

Unread == "unread"

Init ==
    /\ \E d \in Grids :
         game = Game_new(d[2], d[1], draw_border(d[2], d[1]), 0)
    /\ snake = Snake_spawn(game)
    /\ apple = Apple_default
    /\ pc = "handle_input"
    /\ event = Unread
    /\ start = NoStart
    /\ queue = <<>>

\* The terminal's event queue: poll says whether an event is available within
\* the wait, read takes the oldest one and leaves the others queued.
Keys == Events \ {"none"}

Bursts(n) == UNION {[1..m -> Keys] : m \in 0..n}

poll(q) == q # <<>>

read_first_recognized(q) ==
    LET known == {i \in 1..Len(q) : q[i] # "other"}
        first == IF known = {} THEN Len(q)
                 ELSE CHOOSE i \in known : \A j \in known : i <= j
    IN  [event |-> q[first], rest |-> SubSeq(q, first + 1, Len(q))]

read(q) == [event |-> Head(q), rest |-> Tail(q)]

\* handle_input called by main while the keys of arrivals come in during the
\* wait, behind the events that were queued already.
PollAndRead(arrivals) ==
    LET q == queue \o arrivals
    IN  /\ pc = "handle_input"
        /\ IF poll(q)
           THEN /\ event' = read(q).event
                /\ queue' = read(q).rest
           ELSE /\ event' = "none"
                /\ queue' = q
        /\ snake' = handle_input(snake, event')
        /\ start' = Snapshot
        /\ pc' = "exit_check"
        /\ UNCHANGED <<game, apple>>

HandleInput ==
    /\ game.score < MaxScore
    /\ \E arrivals \in Bursts(1) : PollAndRead(arrivals)

ExitCheck ==
    /\ pc = "exit_check"
    /\ pc' = IF snake.direction = EXIT_SIGNAL THEN "done" ELSE "apple"
    /\ event' = Unread
    /\ UNCHANGED <<game, snake, apple, start, queue>>

AppleRetry ==
    /\ pc = "apple"
    /\ ~apple.exists
    /\ \E position \in Samples(game) :
         apple' = Apple_spawn(apple, snake, game, position)
    /\ UNCHANGED <<game, snake, pc, event, start, queue>>

\* The loop body with the eating check moved after slither.
Eat_after_slither ==
    /\ pc = "apple"
    /\ apple.exists
    /\ IF ate(slither(snake), apple)
       THEN /\ apple' = [apple EXCEPT !.exists = FALSE]
            /\ snake' = grow(slither(snake))
            /\ game' = increase_score(game)
       ELSE /\ snake' = slither(snake)
            /\ UNCHANGED <<game, apple>>
    /\ pc' = "collision"
    /\ UNCHANGED <<event, start, queue>>

Eat ==
    /\ pc = "apple"
    /\ apple.exists
    /\ IF ate(snake, apple)
       THEN /\ apple' = [apple EXCEPT !.exists = FALSE]
            /\ snake' = grow(snake)
            /\ game' = increase_score(game)
       ELSE UNCHANGED <<game, snake, apple>>
    /\ pc' = "slither"
    /\ UNCHANGED <<event, start, queue>>

Slither ==
    /\ pc = "slither"
    /\ snake' = slither(snake)
    /\ pc' = "collision"
    /\ UNCHANGED <<game, apple, event, start, queue>>

\* The collision checks without the self test.
CollisionCheck_wall_only ==
    /\ pc = "collision"
    /\ pc' = IF collided_with_wall(snake, game) THEN "done" ELSE "draw"
    /\ UNCHANGED <<game, snake, apple, event, start, queue>>

CollisionCheck ==
    /\ pc = "collision"
    /\ pc' = IF collided_with_self(snake) THEN "done"
             ELSE IF collided_with_wall(snake, game) THEN "done"
             ELSE "draw"
    /\ UNCHANGED <<game, snake, apple, event, start, queue>>

Render ==
    /\ pc = "draw"
    /\ \E outcome \in RenderOutcomes(snake, game) :
         /\ pc' = outcome
         /\ start' = IF outcome = "handle_input" THEN NoStart ELSE start
    /\ UNCHANGED <<game, snake, apple, event, queue>>

Next ==
    \/ HandleInput
    \/ ExitCheck
    \/ AppleRetry
    \/ Eat
    \/ Slither
    \/ CollisionCheck
    \/ Render

Spec == Init /\ [][Next]_vars

(***************************************************************************)
(* The default game with the snake steered along a closed tour of the      *)
(* interior and the apple sampled on the head, on a wall corner or on the  *)
(* next cell of the tour: runs of main in which the snake eats every other *)
(* tick.  The tour goes down the odd columns and up the even ones between  *)
(* rows 2 and height-2, and comes back along row 1.                        *)
(***************************************************************************)
TourNext(c, g) ==
    IF c[2] = 1
    THEN IF c[1] > 1 THEN <<c[1] - 1, 1>> ELSE <<1, 2>>
    ELSE IF c[1] % 2 = 1
         THEN IF c[2] < g.height - 2 THEN <<c[1], c[2] + 1>> ELSE <<c[1] + 1, c[2]>>
         ELSE IF c[2] > 2 THEN <<c[1], c[2] - 1>>
              ELSE IF c[1] < g.width - 2 THEN <<c[1] + 1, 2>> ELSE <<c[1], 1>>

TourKey(s, g) ==
    LET n == TourNext(s.head, g)
        d == <<n[1] - s.head[1], n[2] - s.head[2]>>
    IN  IF d = <<0, -1>> THEN "w"
        ELSE IF d = <<1, 0>> THEN "d"
        ELSE IF d = <<0, 1>> THEN "s"
        ELSE "a"

TourSamples(s, g) == {TourNext(s.head, g), s.head, <<0, 0>>}

InitDefault ==
    /\ game = Game_new(DefaultHeight, DefaultWidth,
                       draw_border(DefaultHeight, DefaultWidth), 0)
    /\ snake = Snake_spawn(game)
    /\ apple = Apple_default
    /\ pc = "handle_input"
    /\ event = Unread
    /\ start = NoStart
    /\ queue = <<>>

HandleInputTour ==
    \E e \in {TourKey(snake, game), "Esc"} : PollAndRead(<<e>>)

AppleRetryTour ==
    /\ pc = "apple"
    /\ ~apple.exists
    /\ \E position \in TourSamples(snake, game) :
         apple' = Apple_spawn(apple, snake, game, position)
    /\ UNCHANGED <<game, snake, pc, event, start, queue>>

NextTour ==
    \/ HandleInputTour
    \/ ExitCheck
    \/ AppleRetryTour
    \/ Eat
    \/ Slither
    \/ CollisionCheck
    \/ Render

SpecTour == InitDefault /\ [][NextTour]_vars

(***************************************************************************)
(* The first tick of the game on grids of several sizes: Game::new takes   *)
(* any height and width, and Snake::spawn places the snake from them.      *)
(***************************************************************************)
GridSizes ==
    ((4..MaxGridWidth) \X (4..MaxGridHeight)) \cup {<<DefaultWidth, DefaultHeight>>}

InitGrids ==
    /\ \E d \in GridSizes :
         game = Game_new(d[2], d[1], draw_border(d[2], d[1]), 0)
    /\ snake = Snake_spawn(game)
    /\ apple = Apple_default
    /\ pc = "handle_input"
    /\ event = Unread
    /\ start = NoStart
    /\ queue = <<>>

FirstTick == snake = Snake_spawn(game) /\ apple = Apple_default

HandleInputFirst ==
    /\ FirstTick
    /\ \E arrivals \in Bursts(1) : PollAndRead(arrivals)

NextGrids ==
    \/ HandleInputFirst
    \/ ExitCheck
    \/ AppleRetry
    \/ Eat
    \/ Slither
    \/ CollisionCheck
    \/ Render

SpecGrids == InitGrids /\ [][NextGrids]_vars

(***************************************************************************)
(* The game with a burst of keys: up to MaxQueue keys are typed before the  *)
(* first poll and none later, so that handle_input finds several events    *)
(* queued and the ticks that follow find the ones it has left.             *)
(***************************************************************************)
KeysTyped ==
    /\ pc = "handle_input"
    /\ FirstTick
    /\ queue = <<>>
    /\ \E burst \in Bursts(MaxQueue) \ {<<>>} : queue' = burst
    /\ UNCHANGED <<game, snake, apple, pc, event, start>>

HandleInputQueue == PollAndRead(<<>>)

NextQueue ==
    \/ KeysTyped
    \/ HandleInputQueue
    \/ ExitCheck
    \/ AppleRetry
    \/ Eat
    \/ Slither
    \/ CollisionCheck
    \/ Render

SpecQueue == Init /\ [][NextQueue]_vars

(***************************************************************************)
(* The default game played freely: every key at every tick while the score *)
(* is below MaxScore, the apple sampled as in the steered game (on the     *)
(* head, on a wall corner or on the cell after the head on the tour).      *)
(***************************************************************************)
OnDefaultGrid == game.width = DefaultWidth /\ game.height = DefaultHeight

NextDefault ==
    \/ HandleInput
    \/ ExitCheck
    \/ AppleRetryTour
    \/ Eat
    \/ Slither
    \/ CollisionCheck
    \/ Render

SpecDefault == InitDefault /\ [][NextDefault]_vars

(***************************************************************************)
(* Vocabulary of the properties.                                           *)
(***************************************************************************)
Add(c, d) == <<c[1] + d[1], c[2] + d[2]>>

Neg(d) == <<0 - d[1], 0 - d[2]>>

Directions == {<<0, -1>>, <<1, 0>>, <<0, 1>>, <<-1, 0>>}

TurnKeys == {"w", "d", "s", "a"}

Requested(key) ==
    IF key = "w" THEN <<0, -1>>
    ELSE IF key = "d" THEN <<1, 0>>
    ELSE IF key = "s" THEN <<0, 1>>
    ELSE <<-1, 0>>

OnPerimeter(c, g) ==
    c[1] = 0 \/ c[1] = g.width - 1 \/ c[2] = 0 \/ c[2] = g.height - 1

OnOtherSegment(s) == \E i \in 1..(VecLen(s.body) - 1) : s.body[i] = s.head

Exiting == pc = "done" /\ snake.direction = EXIT_SIGNAL

Collided == pc = "done" /\ snake.direction # EXIT_SIGNAL

SlitherStep == pc = "slither" /\ pc' = "collision"

EatStep == pc = "apple" /\ pc' = "slither"

\* The body as a sequence, head first.
BodySeq(s) == [i \in 1..VecLen(s.body) |-> s.body[i - 1]]

(***************************************************************************)
(* C1: one slither of a snake of length >= 3 puts the new head at          *)
(* body[0] + direction and moves every other segment to the place of its   *)
(* predecessor (body'[i] = body[i-1], so the new tail is the old           *)
(* second-to-last segment), with the length unchanged: the result of       *)
(* popping the tail and pushing the new head on a double-ended queue.      *)
(***************************************************************************)
C1_SlitherTranslates ==
    [][SlitherStep =>
        /\ snake.length >= 3
        /\ snake'.length = snake.length
        /\ DOMAIN snake'.body = DOMAIN snake.body
        /\ snake'.body[0] = Add(snake.body[0], snake.direction)
        /\ \A i \in 1..(snake.length - 1) : snake'.body[i] = snake.body[i - 1]
        /\ BodySeq(snake') =
             <<Add(snake.head, snake.direction)>> \o
             SubSeq(BodySeq(snake), 1, snake.length - 1)]_vars

C1_Witness ==
    /\ pc = "collision"
    /\ snake.length = 4
    /\ snake.direction = <<0, -1>>
    /\ snake.body[0] = Add(start.snake.body[0], <<0, -1>>)
    /\ snake.tail # start.snake.tail

(***************************************************************************)
(* C2: in every state between operations the snake is consistent: body has *)
(* length elements, head = body[0] and tail = body[length-1].              *)
(***************************************************************************)
C2_SnakeConsistent ==
    /\ VecLen(snake.body) = snake.length
    /\ DOMAIN snake.body = 0..(snake.length - 1)
    /\ snake.head = snake.body[0]
    /\ snake.tail = snake.body[snake.length - 1]

C2_Witness ==
    /\ pc = "collision"
    /\ start.snake.length = 4
    /\ snake.length = 5
    /\ C2_SnakeConsistent

(***************************************************************************)
(* C3: with current direction D, handle_input reading the turn request -D  *)
(* leaves direction unchanged; reading any other turn request sets         *)
(* direction to the requested unit vector.                                 *)
(***************************************************************************)
C3_ReversalGuard ==
    [][(pc = "handle_input" /\ pc' = "exit_check" /\ event' \in TurnKeys) =>
        /\ snake.direction \in Directions
        /\ snake'.direction =
             IF Requested(event') = Neg(snake.direction)
             THEN snake.direction
             ELSE Requested(event')]_vars

C3_Witness ==
    /\ pc = "exit_check"
    /\ event = "s"
    /\ start.snake.direction = <<0, -1>>
    /\ snake.direction = <<0, -1>>

(***************************************************************************)
(* C4: a tick whose slither leaves the head on a wall cell or on another   *)
(* segment stops the loop in that tick, Collided, without a render and     *)
(* with snake, apple and score as the slither left them; nothing runs      *)
(* after the loop has stopped.  So every rendered state has its head       *)
(* strictly inside the border and on no other segment.                     *)
(***************************************************************************)
C4_CollisionStops ==
    /\ [](pc = "draw" =>
            /\ ~(snake.head \in game.wall)
            /\ ~OnPerimeter(snake.head, game)
            /\ ~OnOtherSegment(snake))
    /\ [](pc = "done" => ~ENABLED Next)
    /\ [][(pc = "collision" /\ (snake.head \in game.wall \/ OnOtherSegment(snake))) =>
            /\ pc' = "done"
            /\ snake'.direction # EXIT_SIGNAL
            /\ UNCHANGED <<game, snake, apple>>]_vars

C4_Witness ==
    /\ Collided
    /\ OnOtherSegment(snake)
    /\ ~(snake.head \in game.wall)

(***************************************************************************)
(* C5: a tick that reads Esc stops the loop in that tick, Exiting, and     *)
(* apart from direction holding the sentinel the game, snake and apple are *)
(* as at the start of the tick: the tick goes from handle_input to the     *)
(* exit check to the end of the loop.                                      *)
(***************************************************************************)
C5_EscExits ==
    /\ [](Exiting =>
            /\ game = start.game
            /\ apple = start.apple
            /\ snake = [start.snake EXCEPT !.direction = EXIT_SIGNAL])
    /\ [][(pc = "handle_input" /\ event' = "Esc") =>
            /\ pc' = "exit_check"
            /\ snake' = [snake EXCEPT !.direction = EXIT_SIGNAL]
            /\ UNCHANGED <<game, apple>>]_vars
    /\ [][(pc = "exit_check" /\ event = "Esc") =>
            /\ pc' = "done"
            /\ UNCHANGED <<game, snake, apple>>]_vars

C5_Witness ==
    /\ Exiting
    /\ start.game.score = 1
    /\ start.apple.exists = FALSE
    /\ apple.exists = FALSE

(***************************************************************************)
(* C6 as claimed: a tick that starts with the apple at head + direction    *)
(* and applies no turn ends with score and length one higher.              *)
(***************************************************************************)
AppleAhead(t) ==
    /\ t.taken
    /\ t.apple.exists
    /\ t.apple.position = Add(t.snake.head, t.snake.direction)

C6_Original_EatenSameTick ==
    (pc = "draw" /\ AppleAhead(start) /\ snake.direction = start.snake.direction) =>
        /\ game.score = start.game.score + 1
        /\ snake.length = start.snake.length + 1

(***************************************************************************)
(* C6 amended: a tick that starts with the apple at head + direction and   *)
(* applies no turn moves the head onto the apple without a collision and   *)
(* leaves score and length as they were; the eating step of the following  *)
(* tick, which starts with the head on the apple, raises score and length  *)
(* by 1 and clears apple.exists (score 0, length 3 become 1 and 4).        *)
(***************************************************************************)
C6_EatenNextTick ==
    /\ []((pc \in {"collision", "draw"} /\ AppleAhead(start)
             /\ snake.direction = start.snake.direction) =>
            /\ snake.head = apple.position
            /\ apple.exists
            /\ ~collided_with_self(snake)
            /\ ~collided_with_wall(snake, game)
            /\ game.score = start.game.score
            /\ snake.length = start.snake.length)
    /\ [][(EatStep /\ start.apple.exists
             /\ start.snake.head = start.apple.position) =>
            /\ game'.score = game.score + 1
            /\ snake'.length = snake.length + 1
            /\ ~apple'.exists]_vars

C6_Witness ==
    /\ pc = "slither"
    /\ start.apple.exists
    /\ start.snake.head = start.apple.position
    /\ start.game.score = 0
    /\ start.snake.length = 3
    /\ game.score = 1
    /\ snake.length = 4

(***************************************************************************)
(* C7: whenever Apple::spawn sets exists, the sampled position is no wall  *)
(* cell and no segment of the body; whenever the sampled cell is a wall    *)
(* cell or a body cell, exists stays false.                                *)
(***************************************************************************)
C7_AppleOnFreeCell ==
    [][(pc = "apple" /\ pc' = "apple") =>
        /\ ~apple.exists
        /\ apple'.exists <=>
             /\ ~OnPerimeter(apple'.position, game)
             /\ ~(apple'.position \in game.wall)
             /\ ~(apple'.position \in VecCells(snake.body))]_vars

C7_Witness ==
    /\ pc = "apple"
    /\ apple.exists
    /\ ~start.apple.exists
    /\ snake.length = 4
    /\ ~(apple.position \in VecCells(snake.body))

(***************************************************************************)
(* C9: grow raises length by exactly 1 by inserting a copy of the tail     *)
(* right before the tail, leaving head, direction, the cached tail and     *)
(* body[0..length-2] as they were; in the slither that follows the head    *)
(* advances by direction as it would without the growth and the tail cell  *)
(* stays where it was before the growth.                                   *)
(***************************************************************************)
C9_GrowKeepsTail ==
    /\ [][(EatStep /\ snake' # snake) =>
            /\ snake'.length = snake.length + 1
            /\ DOMAIN snake'.body = 0..snake.length
            /\ \A i \in 0..(snake.length - 2) : snake'.body[i] = snake.body[i]
            /\ snake'.body[snake.length - 1] = snake.tail
            /\ snake'.body[snake.length] = snake.tail
            /\ snake'.head = snake.head
            /\ snake'.direction = snake.direction
            /\ snake'.tail = snake.tail
            /\ snake'.wake = snake.wake]_vars
    /\ [][(SlitherStep /\ snake.length = start.snake.length + 1) =>
            /\ snake'.head = Add(start.snake.head, snake.direction)
            /\ snake'.head = slither([start.snake EXCEPT !.direction = snake.direction]).head
            /\ snake'.tail = start.snake.tail
            /\ snake'.body[snake'.length - 1] = start.snake.body[start.snake.length - 1]]_vars

C9_Witness ==
    /\ pc = "collision"
    /\ start.snake.length = 4
    /\ snake.length = 5
    /\ snake.tail = start.snake.tail
    /\ snake.head = Add(start.snake.head, snake.direction)

(***************************************************************************)
(* C10: score starts at 0 and changes only in the eating step, where it    *)
(* rises by exactly 1 together with length rising by 1 and apple.exists    *)
(* becoming false; so score = length - 3 in every state.                   *)
(***************************************************************************)
C10_ScoreCountsApples ==
    /\ [](game.score = snake.length - 3)
    /\ [][(game'.score # game.score \/ snake'.length # snake.length) =>
            /\ EatStep
            /\ ate(snake, apple)
            /\ game'.score = game.score + 1
            /\ snake'.length = snake.length + 1
            /\ apple.exists /\ ~apple'.exists]_vars

C10_Witness ==
    /\ pc = "handle_input"
    /\ game.score = 2
    /\ snake.length = 5
    /\ ~apple.exists

FreeCells(s, g) == {c \in Samples(g) : ~OnPerimeter(c, g)} \ VecCells(s.body)

InteriorSize(g) == (g.width - 2) * (g.height - 2)

(***************************************************************************)
(* C8 as claimed: whenever the loop is in the apple retry loop, a non-wall *)
(* cell not occupied by the snake exists.                                  *)
(***************************************************************************)
C8_Original_FreeCellExists ==
    (pc = "apple" /\ ~apple.exists) => FreeCells(snake, game) # {}

(***************************************************************************)
(* C8 amended: whenever the loop is in the apple retry loop, the number of *)
(* free non-wall cells is (width-2)*(height-2) - length, so a free cell    *)
(* exists exactly while length < (width-2)*(height-2); with no free cell   *)
(* left every sample is rejected and the retry loop goes on.               *)
(***************************************************************************)
C8_FreeCellsUntilFull ==
    /\ []((pc = "apple" /\ ~apple.exists) =>
            /\ Cardinality(FreeCells(snake, game)) = InteriorSize(game) - snake.length
            /\ FreeCells(snake, game) # {} <=> snake.length < InteriorSize(game))
    /\ [][(pc = "apple" /\ ~apple.exists /\ FreeCells(snake, game) = {}) =>
            (pc' = "apple" /\ ~apple'.exists)]_vars

C8_Witness ==
    /\ pc = "apple"
    /\ apple.exists
    /\ ~start.apple.exists
    /\ snake.length = 20
    /\ Cardinality(FreeCells(snake, game)) = InteriorSize(game) - 20

(***************************************************************************)
(* C11: for every head coordinate inside the grid, collided_with_wall is   *)
(* true exactly when the head is on row 0, row height-1, column 0 or       *)
(* column width-1, and that is exactly when the head is a member of the    *)
(* wall set built by draw_border.                                          *)
(***************************************************************************)
C11_WallTestIsBorder ==
    \A c \in Samples(game) :
        LET hit == collided_with_wall([snake EXCEPT !.head = c], game)
            edge == c[2] = 0 \/ c[2] = game.height - 1
                    \/ c[1] = 0 \/ c[1] = game.width - 1
        IN  /\ hit <=> edge
            /\ edge <=> c \in game.wall

\* The wall test has stopped the loop with the head on a cell of the wall set.
C11_Witness ==
    /\ Collided
    /\ ~collided_with_self(snake)
    /\ snake.head \in Samples(game)
    /\ snake.head \in game.wall

(***************************************************************************)
(* C12: after a slither, collided_with_self answers true exactly when the  *)
(* new head (the old head plus the direction) equals body[i] of the        *)
(* post-slither body for some i with 1 <= i <= length - 1 (the second to   *)
(* the last segment of the body, head first), and false otherwise.         *)
(***************************************************************************)
C12_SelfTestAfterSlither ==
    [][SlitherStep =>
         LET newHead == Add(snake.head, snake.direction)
             after == BodySeq(snake')
         IN  /\ Len(after) = snake'.length
             /\ collided_with_self(snake')
                  <=> \E i \in 2..Len(after) : after[i] = newHead]_vars

\* The test has answered true for a head on the last segment of the body, and
\* the loop has stopped.
C12_Witness ==
    /\ Collided
    /\ collided_with_self(snake)
    /\ BodySeq(snake)[snake.length] = Add(start.snake.head, snake.direction)
    /\ \A i \in 2..(snake.length - 1) : BodySeq(snake)[i] # snake.head

(***************************************************************************)
(* C13: on every grid with height >= 5 and width >= 5 the snake made by    *)
(* Snake::spawn fits: its three segments are cells of the grid that are    *)
(* not wall cells, one more interior cell is free, and the first tick      *)
(* without input ends without a collision.                                 *)
(***************************************************************************)
C13_SpawnFits ==
    (game.width >= 5 /\ game.height >= 5) =>
        /\ (pc = "handle_input" /\ FirstTick) =>
              /\ \A i \in 0..2 :
                    /\ snake.body[i] \in Samples(game)
                    /\ ~OnPerimeter(snake.body[i], game)
              /\ FreeCells(snake, game) # {}
        /\ (pc = "collision" /\ snake.direction = start.snake.direction) =>
              /\ ~collided_with_self(snake)
              /\ ~collided_with_wall(snake, game)

\* The direction after handle_input has read key with direction d.
Applied(d, key) ==
    IF key \in TurnKeys
    THEN IF Requested(key) = Neg(d) THEN d ELSE Requested(key)
    ELSE IF key = "Esc" THEN EXIT_SIGNAL
    ELSE d

\* The first recognized command of the queue q, "none" when it holds none.
FirstRecognized(q) ==
    LET known == {i \in 1..Len(q) : q[i] \in TurnKeys \cup {"Esc"}}
    IN  IF known = {} THEN "none"
        ELSE q[CHOOSE i \in known : \A j \in known : i <= j]

HandleInputStep == pc = "handle_input" /\ pc' = "exit_check"

(***************************************************************************)
(* C14 as stated: in each tick the direction changes at most once, and the *)
(* change applied is the one requested by the first recognized command     *)
(* among the events queued at that tick; with no event available the       *)
(* direction is unchanged.                                                 *)
(***************************************************************************)
C14_Original_FirstRecognized ==
    [][/\ HandleInputStep =>
            snake'.direction = Applied(snake.direction, FirstRecognized(queue))
       /\ snake'.direction # snake.direction => HandleInputStep]_vars

(***************************************************************************)
(* C14: in each tick the direction changes at most once, in handle_input,  *)
(* and the change applied is the one requested by the first event queued   *)
(* at that tick, recognized or not: the event is taken off the queue, an   *)
(* unrecognized key or a reverse turn changes nothing, and the events      *)
(* behind it stay queued for the ticks that follow; with no event          *)
(* available the direction is unchanged.                                   *)
(***************************************************************************)
C14_FirstEventOnly ==
    [][/\ HandleInputStep =>
            IF queue = <<>>
            THEN /\ event' = "none"
                 /\ queue' = <<>>
                 /\ snake'.direction = snake.direction
            ELSE /\ event' = Head(queue)
                 /\ queue' = Tail(queue)
                 /\ snake'.direction = Applied(snake.direction, Head(queue))
       /\ snake'.direction # snake.direction => HandleInputStep]_vars

\* handle_input has read an unrecognized key and left the direction alone
\* while a turn that would have been accepted is still queued behind it.
C14_Witness ==
    /\ pc = "exit_check"
    /\ event = "other"
    /\ snake.direction = start.snake.direction
    /\ queue # <<>>
    /\ Head(queue) \in TurnKeys
    /\ Applied(snake.direction, Head(queue)) # snake.direction

\* The steps of one pass of the loop, each with the step that may follow it.
TickOrder ==
    {<<"handle_input", "exit_check">>,
     <<"exit_check", "apple">>, <<"exit_check", "done">>,
     <<"apple", "apple">>, <<"apple", "slither">>,
     <<"slither", "collision">>,
     <<"collision", "draw">>, <<"collision", "done">>,
     <<"draw", "handle_input">>, <<"draw", "panicked">>}

(***************************************************************************)
(* C15: in every tick that does not exit the steps come in the order input *)
(* sampling, exit check, apple ensured, eating check (with growth and the  *)
(* score increment when eaten), slither, collision checks, render; the     *)
(* snake slithers exactly once in such a tick (before slither the head is  *)
(* where the tick found it, from slither on it is one direction further),  *)
(* and length and score change only in the eating step, which slither      *)
(* follows at once.                                                        *)
(***************************************************************************)
C15_TickOrder ==
    /\ [](/\ pc \in {"exit_check", "apple", "slither"} =>
                snake.head = start.snake.head
          /\ pc \in {"collision", "draw"} =>
                snake.head = Add(start.snake.head, snake.direction))
    /\ [][/\ <<pc, pc'>> \in TickOrder
          /\ pc = "exit_check" =>
                (pc' = "done" <=> snake.direction = EXIT_SIGNAL)
          /\ (pc = "apple" /\ pc' = "slither") => apple.exists
          /\ snake'.head # snake.head => SlitherStep
          /\ (snake'.length # snake.length \/ game'.score # game.score
                \/ (snake'.body # snake.body /\ ~SlitherStep)) =>
                /\ EatStep
                /\ ate(snake, apple)
                /\ snake'.length = snake.length + 1
                /\ game'.score = game.score + 1]_vars

\* A tick that ate, grew, slithered once and passed the collision checks is at
\* its render.
C15_Witness ==
    /\ pc = "draw"
    /\ snake.length = start.snake.length + 1
    /\ game.score = start.game.score + 1
    /\ snake.head = Add(start.snake.head, snake.direction)

(***************************************************************************)
(* C16: after every slither, wake is the position the tail had before the  *)
(* slither and no segment of the post-slither body, head and tail          *)
(* included, is on wake, so that the erase of wake at render never blanks  *)
(* a cell the snake still occupies.                                        *)
(***************************************************************************)
C16_WakeIsVacated ==
    pc \in {"collision", "draw"} =>
        /\ snake.wake = start.snake.tail
        /\ snake.wake \notin VecCells(snake.body)
        /\ snake.wake # snake.head
        /\ snake.wake # snake.tail

\* The direction the previous slither used: the step from body[1] to the head
\* (the spawned snake lies as if it had just moved in its first direction).
PreviousDirection(s) == <<s.head[1] - s.body[1][1], s.head[2] - s.body[1][2]>>

(***************************************************************************)
(* C17: the snake never reverses into its neck: the direction a slither    *)
(* uses is never the negation of the direction the previous slither used   *)
(* (which is the direction the tick started with), so the new head never   *)
(* equals the pre-slither body[1].                                         *)
(***************************************************************************)
C17_NoReversal ==
    [][SlitherStep =>
         /\ start.snake.direction = PreviousDirection(snake)
         /\ snake.direction # Neg(PreviousDirection(snake))
         /\ snake'.head # snake.body[1]]_vars

\* A slither has used a direction other than the one of the slither before it,
\* in a tick later than the first.
C17_Witness ==
    /\ pc = "collision"
    /\ start.snake # Snake_spawn(start.game)
    /\ snake.direction # start.snake.direction
    /\ snake.direction \in Directions
    /\ snake.head # start.snake.head

(***************************************************************************)
(* C18 as stated: in every reachable state, the state in which the loop    *)
(* stops included, head and tail are distinct cells.                       *)
(***************************************************************************)
C18_Original_HeadNotTail == snake.head # snake.tail

(***************************************************************************)
(* C18: head and tail are distinct cells in every reachable state except   *)
(* after a slither that has moved the head onto the tail: head and tail    *)
(* coincide only between that slither and the self-collision check of the  *)
(* same tick and in the state in which that check has stopped the loop, so *)
(* never when a tick starts, before its slither, or at a render.           *)
(***************************************************************************)
C18_HeadOnTailStops ==
    snake.head = snake.tail =>
        /\ pc \in {"collision", "done"}
        /\ snake.direction # EXIT_SIGNAL
        /\ OnOtherSegment(snake)
        /\ snake.head = Add(start.snake.head, snake.direction)

\* The loop has stopped with the head on the tail.
C18_Witness == Collided /\ snake.head = snake.tail

\* The distance between two cells along the axes.
Manhattan(c, d) ==
    (IF c[1] >= d[1] THEN c[1] - d[1] ELSE d[1] - c[1])
    + (IF c[2] >= d[2] THEN c[2] - d[2] ELSE d[2] - c[2])

(***************************************************************************)
(* C19: the direction is always one of the four unit vectors or the        *)
(* sentinel (69,69); a key that is not recognized leaves it unchanged;     *)
(* slither is never run while the direction is the sentinel, so every      *)
(* slither moves the head by exactly one cell along one axis.              *)
(***************************************************************************)
C19_DirectionDomain ==
    /\ [](/\ snake.direction \in Directions \cup {EXIT_SIGNAL}
          /\ pc \in {"apple", "slither", "collision", "draw"} =>
                snake.direction \in Directions)
    /\ [][/\ (HandleInputStep /\ event' \notin TurnKeys \cup {"Esc"}) =>
                snake'.direction = snake.direction
          /\ SlitherStep =>
                /\ Manhattan(snake'.head, snake.head) = 1
                /\ snake'.head[1] = snake.head[1] \/ snake'.head[2] = snake.head[2]]_vars

\* An unrecognized key has been read in a tick later than the first, the
\* direction is as before, and the tick goes on to its slither.
C19_Witness ==
    /\ pc = "exit_check"
    /\ event = "other"
    /\ snake.direction = start.snake.direction
    /\ snake.direction \in Directions \ {<<1, 0>>}

HasDuplicates(s) == Cardinality(VecCells(s.body)) < VecLen(s.body)

\* The body is a simple path strictly inside the border of g.
SimplePath(s, g) ==
    LET b == BodySeq(s)
    IN  /\ ~HasDuplicates(s)
        /\ \A i \in 1..(Len(b) - 1) : Manhattan(b[i], b[i + 1]) = 1
        /\ \A i \in 1..Len(b) : b[i] \in Samples(g) /\ ~OnPerimeter(b[i], g)

\* Between grow and the slither of the same tick.
GrownNotMoved ==
    /\ pc = "slither"
    /\ snake.length = start.snake.length + 1
    /\ snake.head = start.snake.head

(***************************************************************************)
(* C20 as stated: in every rendered state (a tick that ends still running) *)
(* the body is a simple path strictly inside the border: its segments are  *)
(* pairwise distinct, consecutive segments are orthogonally adjacent and   *)
(* none is a wall cell; duplicate segments exist only between grow and the *)
(* slither of the same tick.                                               *)
(***************************************************************************)
C20_Original_DuplicatesOnlyAfterGrow ==
    /\ pc = "draw" => SimplePath(snake, game)
    /\ HasDuplicates(snake) => GrownNotMoved

(***************************************************************************)
(* C20: in every rendered state, and when the next tick starts, the body   *)
(* is a simple path strictly inside the border (segments pairwise          *)
(* distinct, consecutive segments orthogonally adjacent, none a wall       *)
(* cell); duplicate segments exist only between grow and the slither of    *)
(* the same tick (the copy of the tail) or after a slither that has moved  *)
(* the head onto another segment, in the tick that the self-collision      *)
(* check then stops; in both cases one cell is held twice and the state is *)
(* not rendered.                                                           *)
(***************************************************************************)
C20_RenderedBodyIsSimplePath ==
    /\ pc \in {"draw", "handle_input"} => SimplePath(snake, game)
    /\ HasDuplicates(snake) =>
          /\ Cardinality(VecCells(snake.body)) = VecLen(snake.body) - 1
          /\ \/ GrownNotMoved /\ snake.body[snake.length - 2] = snake.tail
             \/ /\ pc \in {"collision", "done"}
                /\ snake.direction # EXIT_SIGNAL
                /\ OnOtherSegment(snake)

\* A tick of the default game that ate and grew is at its render, the copy of
\* the tail gone.
C20_Witness ==
    /\ pc = "draw"
    /\ OnDefaultGrid
    /\ snake.length = start.snake.length + 1
    /\ snake.length > 4
    /\ SimplePath(snake, game)
====
